---- MODULE Spec2Model ----
(***************************************************************************)
(* Model of camlistore's mutable FUSE filesystem (pkg/fs/mut.go): the      *)
(* directory nodes (mutDir), file nodes (mutFile) and write handles        *)
(* (mutFileHandle), run by concurrent kernel requests against an external  *)
(* claim log and blob store.                                               *)
(*                                                                         *)
(* Every VFS request is run by a thread.  A request is cut into steps at   *)
(* the points other threads can observe: each call to the external client  *)
(* (UploadNewPermanode, UploadAndSignBlob, Describe, WriteFileFromReader)  *)
(* and each critical section of a node mutex.  pc[t] names the statement   *)
(* thread t executes next; loc[t] holds the request's arguments, its local *)
(* variables and, once pc[t] = "idle" again, its result.                   *)
(***************************************************************************)
EXTENDS Integers, Sequences, FiniteSets, TLC

VARIABLES
    nodes,      \* the heap of mutDir / mutFile objects, indexed by node id
    handles,    \* the heap of mutFileHandle objects, indexed by handle id
    claimLog,   \* the external store: the signed claims acknowledged so far
    blobs,      \* the external store: the file blobs uploaded so far
    numPn,      \* the external store: number of permanodes created so far
    now,        \* the wall clock read by time.Now()
    pc,         \* per thread: the statement it executes next
    loc,        \* per thread: arguments, locals and result of its request
    panicked,   \* TRUE once a goroutine has panicked (the process is gone)
    created,    \* history: per root directory and name, the node the last
                \* successful Create or Symlink put there, 0 once another
                \* change of the name began
    removed,    \* history: per root directory and name, TRUE while the last
                \* completed change of the name was a successful Remove
    popLog,     \* history: per root directory, the clock readings of the
                \* last populate and of the last populate that called Describe
    locksOut,   \* dirlock.go: the count of directory locks handed out
    dirLocks,   \* dirlock.go: the registry, path -> id of its sync.RWMutex
    rwmutex,    \* dirlock.go: the heap of sync.RWMutex objects
    lpc,        \* dirlock.go, per thread: the statement it executes next
    lloc        \* dirlock.go, per thread: the path and mutex of its lock

\* The state of the filesystem (pkg/fs) and of the lock registry
\* (pkg/blobserver/localdisk); the two packages share no state.
fsVars == <<nodes, handles, claimLog, blobs, numPn, now, pc, loc, panicked,
            created, removed, popLog>>
lockVars == <<locksOut, dirLocks, rwmutex, lpc, lloc>>

vars == <<fsVars, lockVars>>

(***************************************************************************)
(* Universe of the model.                                                  *)
(***************************************************************************)
Threads == {1, 2}
Names   == {"a", "b"}
Targets == {"tgt", "tgt2"}
Bytes   == {0, 1}              \* 0 is also the fill byte of a sparse write
RootDirs == {1, 2}             \* node ids of the two root mutDirs
Lockers  == {1, 2, 3}          \* threads of the lock registry's callers
Paths    == {"p", "q"}         \* directory paths of the lock registry

MaxNodes   == 4                \* node objects allocated
MaxHandles == 2                \* handle objects allocated
MaxClaims  == 3                \* claims acknowledged by the store
MaxPn      == 4                \* permanodes in the store (roots included)
MaxLen     == 2                \* bytes in a scratch file
MaxTime    == 60               \* wall clock stops here
MaxMutexes == 4                \* sync.RWMutex objects allocated

\* const populateInterval = 30 * time.Second (in seconds)
populateInterval == 30
\* the step of the clock where requests are timed within a populate interval
ClockStep == 10

EmptyMap == [x \in {} |-> 0]
NoRef    == <<>>               \* a nil *blobref.BlobRef

(***************************************************************************)
(* External store.  A claim is set-attribute or del-attribute on a         *)
(* permanode; the attribute is camliPath:<name>, camliSymlinkTarget or     *)
(* camliContent.  The value is a permanode (valPn), a string (valStr) or a *)
(* file blob reference (valRef) according to the attribute.                *)
(***************************************************************************)
NewSetAttributeClaim(permanode, key, name, vPn, vStr, vRef, date) ==
    [type |-> "set-attribute", pn |-> permanode, key |-> key, name |-> name,
     valPn |-> vPn, valStr |-> vStr, valRef |-> vRef, date |-> date]

NewDelAttributeClaim(permanode, key, name, date) ==
    [type |-> "del-attribute", pn |-> permanode, key |-> key, name |-> name,
     valPn |-> 0, valStr |-> "", valRef |-> NoRef, date |-> date]

\* The claim date of a claim on which SetClaimDate was not called.
NoDate == 0

\* A nil claim value: the attribute is not set.
NoClaim == NewDelAttributeClaim(0, "", "", NoDate)

\* The claim that currently decides attribute (key, name) of permanode p in
\* log: the last one about it, or NoClaim.
RECURSIVE LastClaim(_, _, _, _)
LastClaim(log, p, key, name) ==
    IF log = <<>> THEN NoClaim
    ELSE LET c == log[Len(log)] IN
         IF c.pn = p /\ c.key = key /\ c.name = name
         THEN c
         ELSE LastClaim(SubSeq(log, 1, Len(log) - 1), p, key, name)

HasAttr(log, p, key, name) ==
    LastClaim(log, p, key, name).type = "set-attribute"

\* The file blob schema.WriteFileFromReader uploads for a file called name
\* holding bytes: content-addressed, so equal inputs give the same reference.
FileRef(name, bytes) == <<name, bytes>>
RefBytes(ref) == ref[2]

(***************************************************************************)
(* Node objects.  One record shape serves both Go types: kind is "dir" for *)
(* a *mutDir and "file" for a *mutFile (a regular file or a symlink).      *)
(* mu is the thread holding the node's sync.Mutex, 0 when it is free.      *)
(* hasMap is FALSE while the children map is nil.                          *)
(***************************************************************************)
MutDir(permanode, parent, name) ==
    [kind |-> "dir", permanode |-> permanode, parent |-> parent, name |-> name,
     mu |-> 0, lastPop |-> 0, hasMap |-> FALSE, children |-> EmptyMap,
     symLink |-> FALSE, target |-> "", content |-> NoRef, size |-> 0]

MutFile(permanode, parent, name, symLink, target, content, size) ==
    [kind |-> "file", permanode |-> permanode, parent |-> parent, name |-> name,
     mu |-> 0, lastPop |-> 0, hasMap |-> FALSE, children |-> EmptyMap,
     symLink |-> symLink, target |-> target, content |-> content, size |-> size]

\* m[k] = v, adding k to the map's keys when absent.
MapPut(m, k, v) == [x \in (DOMAIN m) \cup {k} |-> IF x = k THEN v ELSE m[x]]
\* delete(m, k)
MapDelete(m, k) == [x \in (DOMAIN m) \ {k} |-> m[x]]

NodeIds   == 1 .. Len(nodes)
HandleIds == 1 .. Len(handles)

(***************************************************************************)
(* Thread locals.  A request starts from NoLocals with its arguments set.  *)
(***************************************************************************)
\* No earlier event to measure the time from.
NoTime == 0 - 1

NoLocals ==
    [op |-> "none",
     n |-> 0, name |-> "", typ |-> "", n2 |-> 0, newName |-> "", target |-> "",
     f |-> 0, flags |-> 0, h |-> 0, off |-> 0, data |-> <<>>, size |-> 0,
     pdir |-> 0, cont |-> "",           \* populate: receiver, return address
     pr |-> 0, child |-> 0, tnode |-> 0, date |-> 0,
     br |-> NoRef, cnt |-> 0,
     node |-> 0, handle |-> 0, ents |-> {}, rdata |-> <<>>, str |-> "",
     err |-> "", at |-> "",             \* result, and the statement that returned it
     \* history, read by the properties only
     alone |-> FALSE,   \* no other request changing the same name overlapped
     described |-> "",  \* how the last populate went: "fresh", "error", "ok"
     before |-> <<>>,   \* children maps when the request began
     found |-> <<>>,    \* children maps when Rename resolved oldName
     snap |-> <<>>,     \* file node and store when a handle request began
     open |-> FALSE,    \* the handle had its temp file when the request began
     dev |-> FALSE,     \* the temp file's device failed the request
     final |-> <<>>,    \* the scratch bytes when Release closed the temp file
     wrote |-> <<>>,    \* Read: <<offset, data>> of the successful Write on the
                        \* handle that only Reads of the handle separate from it
     acked |-> FALSE,   \* the store acknowledged Release's camliContent claim
     sent |-> 0,        \* length of the claim log when the request began
     expect |-> 0,      \* created[n][name] when Lookup read the map
     gone |-> FALSE,    \* removed[n][name] when Lookup read the map
     resp |-> <<>>,     \* populate: per name, how the describe response
                        \* showed the directory's camliPath child
     torn |-> FALSE,    \* Lookup, ReadDir: Torn(n) when the map was read
     prevPop |-> 0,     \* populate: n.lastPop when populate took the mutex
     sinceCall |-> NoTime,  \* populate: time since the last populate of the
                            \* directory read the clock, NoTime if none did
     sinceDesc |-> NoTime]  \* populate: time since the last populate of the
                            \* directory called Describe, NoTime if none did

\* A thread of the lock registry's callers that holds no lock.
NoLock == [dir |-> "", mu |-> 0, kind |-> ""]

Init ==
    /\ nodes    = << MutDir(1, 0, ""), MutDir(2, 0, "") >>
    /\ handles  = << >>
    /\ claimLog = << >>
    /\ blobs    = {}
    /\ numPn    = 2
    /\ now      = populateInterval
    /\ pc       = [t \in Threads |-> "idle"]
    /\ loc      = [t \in Threads |-> NoLocals]
    /\ panicked = FALSE
    /\ created  = [d \in RootDirs |-> [x \in Names |-> 0]]
    /\ removed  = [d \in RootDirs |-> [x \in Names |-> FALSE]]
    /\ popLog   = [d \in RootDirs |-> [call |-> NoTime, desc |-> NoTime]]
    /\ locksOut = 0
    /\ dirLocks = EmptyMap
    /\ rwmutex  = << >>
    /\ lpc      = [t \in Lockers |-> "idle"]
    /\ lloc     = [t \in Lockers |-> NoLock]

\* Thread t goes to statement l with its locals changed to r.
Goto(t, l, r) ==
    /\ pc'  = [pc EXCEPT ![t] = l]
    /\ loc' = [loc EXCEPT ![t] = r]

\* Thread t returns error e ("" is success) with its locals changed to r.
Return(t, e, r) == Goto(t, "idle", [r EXCEPT !.err = e, !.at = pc[t]])

Running(t, l) == ~panicked /\ pc[t] = l

\* time passes, a populate interval at a time
Tick ==
    /\ ~panicked
    /\ now + populateInterval <= MaxTime
    /\ now' = now + populateInterval
    /\ UNCHANGED <<lockVars, popLog, nodes, handles, claimLog, blobs, numPn, pc, loc, panicked,
                   created, removed>>

\* time passes, a clock step at a time
TickFine ==
    /\ ~panicked
    /\ now + ClockStep <= MaxTime
    /\ now' = now + ClockStep
    /\ UNCHANGED <<lockVars, popLog, nodes, handles, claimLog, blobs, numPn, pc, loc, panicked,
                   created, removed>>

(***************************************************************************)
(* mutDir.populate, run as a subroutine of Lookup, ReadDir and Rename on   *)
(* the directory loc[t].pdir; it returns to statement loc[t].cont.         *)
(***************************************************************************)

\* The describe response's view of one camliPath child of a directory.
\* miss is the set of names whose child permanode the response leaves out;
\* ctype[name] is what the response says about the child's camliContent blob:
\* "file", "other" (described, another camliType) or "missing".
\* The result is the node populate makes for the child, or <<>> when the loop
\* `continue`s without storing one.
PopulateChild(log, n, name, miss, ctype) ==
    LET childRef   == LastClaim(log, nodes[n].permanode, "camliPath", name).valPn
        symClaim   == LastClaim(log, childRef, "camliSymlinkTarget", "")
        target     == IF symClaim.type = "set-attribute" THEN symClaim.valStr ELSE ""
        contClaim  == LastClaim(log, childRef, "camliContent", "")
        contentRef == IF contClaim.type = "set-attribute" THEN contClaim.valRef ELSE NoRef
    IN  IF name \in miss THEN <<>>
        ELSE IF target # "" THEN
            << MutFile(childRef, n, name, TRUE, target, NoRef, 0) >>
        ELSE IF contentRef # NoRef THEN
            IF ctype[name] # "file" THEN <<>>
            ELSE << MutFile(childRef, n, name, FALSE, "", contentRef,
                            Len(RefBytes(contentRef))) >>
        ELSE << MutDir(childRef, n, name) >>

\* The attributes a describe response shows for the camliPath child name of
\* directory n: its permanode, camliSymlinkTarget ("" if unset) and
\* camliContent (NoRef if unset).
ChildRef(log, n, name) == LastClaim(log, nodes[n].permanode, "camliPath", name).valPn
ChildTarget(log, n, name) ==
    LET c == LastClaim(log, ChildRef(log, n, name), "camliSymlinkTarget", "")
    IN  IF c.type = "set-attribute" THEN c.valStr ELSE ""
ChildContent(log, n, name) ==
    LET c == LastClaim(log, ChildRef(log, n, name), "camliContent", "")
    IN  IF c.type = "set-attribute" THEN c.valRef ELSE NoRef

\* History: what the response chosen by (miss, ctype) showed of name: "none"
\* (no camliPath attribute), "undescribed" (the child is not in the response),
\* "symlink", "file", "other" or "missing" (the child has camliContent of that
\* description), or "bare" (the child has neither attribute).
DescribedAs(log, n, name, miss, ctype) ==
    IF ~HasAttr(log, nodes[n].permanode, "camliPath", name) THEN "none"
    ELSE IF name \in miss THEN "undescribed"
    ELSE IF ChildTarget(log, n, name) # "" THEN "symlink"
    ELSE IF ChildContent(log, n, name) # NoRef THEN ctype[name]
    ELSE "bare"

\* The names of the camliPath attributes of directory n in the log.
PathNames(log, n) ==
    {name \in Names : HasAttr(log, nodes[n].permanode, "camliPath", name)}

\* The loop of populate over the names todo: heap is the node heap so far,
\* kids the children map so far.  Returns <<heap, kids>>.
RECURSIVE PopulateLoop(_, _, _, _, _, _, _)
PopulateLoop(heap, kids, log, n, todo, miss, ctype) ==
    IF todo = {} THEN <<heap, kids>>
    ELSE LET name  == CHOOSE x \in todo : TRUE
             child == PopulateChild(log, n, name, miss, ctype)
         IN  IF child = <<>>
             THEN PopulateLoop(heap, kids, log, n, todo \ {name}, miss, ctype)
             ELSE PopulateLoop(Append(heap, child[1]),
                               MapPut(kids, name, Len(heap) + 1),
                               log, n, todo \ {name}, miss, ctype)

\* populate as it would be without n.lastPop = now
PopulateEnter_KeepsLastPop(t) ==
    /\ Running(t, "populate")
    /\ LET n == loc[t].pdir
           since(then) == IF then = NoTime THEN NoTime ELSE now - then
           r == [loc[t] EXCEPT !.prevPop = nodes[n].lastPop,
                               !.sinceCall = since(popLog[n].call),
                               !.sinceDesc = since(popLog[n].desc)]
       IN
       /\ nodes[n].mu = 0
       /\ IF nodes[n].lastPop + populateInterval > now
          THEN /\ Goto(t, loc[t].cont, [r EXCEPT !.described = "fresh"])
               /\ popLog' = [popLog EXCEPT ![n].call = now]
               /\ UNCHANGED nodes
          ELSE /\ nodes' = [nodes EXCEPT ![n].mu = t]
               /\ popLog' = [popLog EXCEPT ![n].call = now, ![n].desc = now]
               /\ Goto(t, "describe", r)
    /\ UNCHANGED <<lockVars, handles, claimLog, blobs, numPn, now, panicked, created, removed>>

\* n.mu.Lock(); now := time.Now(); the freshness test; n.lastPop = now
PopulateEnter(t) ==
    /\ Running(t, "populate")
    /\ LET n == loc[t].pdir
           since(then) == IF then = NoTime THEN NoTime ELSE now - then
           r == [loc[t] EXCEPT !.prevPop = nodes[n].lastPop,
                               !.sinceCall = since(popLog[n].call),
                               !.sinceDesc = since(popLog[n].desc)]
       IN
       /\ nodes[n].mu = 0
       /\ IF nodes[n].lastPop + populateInterval > now
          THEN /\ Goto(t, loc[t].cont, [r EXCEPT !.described = "fresh"])
               /\ popLog' = [popLog EXCEPT ![n].call = now]
               /\ UNCHANGED nodes
          ELSE /\ nodes' = [nodes EXCEPT ![n].mu = t, ![n].lastPop = now]
               /\ popLog' = [popLog EXCEPT ![n].call = now, ![n].desc = now]
               /\ Goto(t, "describe", r)
    /\ UNCHANGED <<lockVars, handles, claimLog, blobs, numPn, now, panicked, created, removed>>

\* n.fs.client.Describe fails: log, return nil (the deferred Unlock runs)
DescribeError(t) ==
    /\ Running(t, "describe")
    /\ nodes' = [nodes EXCEPT ![loc[t].pdir].mu = 0]
    /\ Goto(t, loc[t].cont, [loc[t] EXCEPT !.described = "error"])
    /\ UNCHANGED <<lockVars, popLog, handles, claimLog, blobs, numPn, now, panicked, created, removed>>

\* the response has no record of the directory itself: populate returns an
\* error, which every caller turns into EIO
DescribeNoDir(t) ==
    /\ Running(t, "describe")
    /\ nodes' = [nodes EXCEPT ![loc[t].pdir].mu = 0]
    /\ Return(t, "EIO", loc[t])
    /\ UNCHANGED <<lockVars, popLog, handles, claimLog, blobs, numPn, now, panicked, created, removed>>

\* the response describes the directory: store a node for its children
DescribeOK(t) ==
    /\ Running(t, "describe")
    /\ \E miss \in SUBSET Names, ctype \in [Names -> {"file", "other", "missing"}] :
         LET n   == loc[t].pdir
             res == PopulateLoop(nodes, nodes[n].children, claimLog, n,
                                 PathNames(claimLog, n), miss, ctype)
         IN  /\ Len(res[1]) <= MaxNodes
             /\ nodes' = [res[1] EXCEPT ![n].mu = 0, ![n].hasMap = TRUE,
                                        ![n].children = res[2]]
             /\ Goto(t, loc[t].cont,
                     [loc[t] EXCEPT !.described = "ok",
                                    !.resp = [x \in Names |->
                                       DescribedAs(claimLog, n, x, miss, ctype)]])
    /\ UNCHANGED <<lockVars, popLog, handles, claimLog, blobs, numPn, now, panicked, created, removed>>

(***************************************************************************)
(* mutDir.Lookup and mutDir.ReadDir                                        *)
(***************************************************************************)
\* History: a Rename from or to directory d that will return success has
\* its node in neither the source map under oldName nor the destination map
\* under newName.
Torn(d) ==
    \E u \in Threads :
       /\ loc[u].op = "Rename" /\ pc[u] \in {"rename_unlink", "rename_link"}
       /\ d \in {loc[u].n, loc[u].n2}
       /\ nodes[loc[u].n2].hasMap
       /\ ~ /\ loc[u].name \in DOMAIN nodes[loc[u].n].children
            /\ nodes[loc[u].n].children[loc[u].name] = loc[u].tnode
       /\ ~ /\ loc[u].newName \in DOMAIN nodes[loc[u].n2].children
            /\ nodes[loc[u].n2].children[loc[u].newName] = loc[u].tnode

LookupStart(t, D, N) ==
    /\ Running(t, "idle")
    /\ \E n \in D, name \in N :
         Goto(t, "populate", [NoLocals EXCEPT !.op = "Lookup", !.n = n, !.name = name,
                                              !.pdir = n, !.cont = "lookup"])
    /\ UNCHANGED <<lockVars, popLog, nodes, handles, claimLog, blobs, numPn, now, panicked, created, removed>>

\* n.mu.Lock(); n2 := n.children[name]; return n2 or ENOENT
LookupRead(t) ==
    /\ Running(t, "lookup")
    /\ LET n == loc[t].n
           name == loc[t].name
       IN  /\ nodes[n].mu = 0
           /\ IF name \in DOMAIN nodes[n].children
              THEN Return(t, "", [loc[t] EXCEPT !.node = nodes[n].children[name],
                                                !.expect = created[n][name],
                                                !.gone = removed[n][name],
                                                !.torn = Torn(n)])
              ELSE Return(t, "ENOENT", [loc[t] EXCEPT !.expect = created[n][name],
                                                      !.gone = removed[n][name],
                                                      !.torn = Torn(n)])
    /\ UNCHANGED <<lockVars, popLog, nodes, handles, claimLog, blobs, numPn, now, panicked, created, removed>>

ReadDirStart(t, D) ==
    /\ Running(t, "idle")
    /\ \E n \in D :
         Goto(t, "populate", [NoLocals EXCEPT !.op = "ReadDir", !.n = n,
                                              !.pdir = n, !.cont = "readdir"])
    /\ UNCHANGED <<lockVars, popLog, nodes, handles, claimLog, blobs, numPn, now, panicked, created, removed>>

\* one Dirent {Name, Inode} per child; the inode is the permanode's projection
ReadDirRead(t) ==
    /\ Running(t, "readdir")
    /\ LET n == loc[t].n IN
       /\ nodes[n].mu = 0
       /\ Return(t, "", [loc[t] EXCEPT !.torn = Torn(n), !.ents =
              {<<x, nodes[nodes[n].children[x]].permanode>> : x \in DOMAIN nodes[n].children}])
    /\ UNCHANGED <<lockVars, popLog, nodes, handles, claimLog, blobs, numPn, now, panicked, created, removed>>

(***************************************************************************)
(* History bookkeeping for requests that change a directory entry.         *)
(***************************************************************************)
ChangeOps == {"Create", "Mkdir", "Symlink", "Remove", "Rename"}

\* The <<directory, name>> entries the request with locals r changes.
EntriesOf(r) ==
    IF r.op \notin ChangeOps THEN {}
    ELSE {<<r.n, r.name>>} \cup (IF r.op = "Rename" /\ r.n2 # 0
                                 THEN {<<r.n2, r.newName>>} ELSE {})

Touches(u) == IF pc[u] = "idle" THEN {} ELSE EntriesOf(loc[u])

\* The children maps of the root directories, as a value.
ChildrenMaps == [d \in RootDirs |-> nodes[d].children]

\* Thread t begins a changing request with locals r at statement l.
BeginChange(t, l, r) ==
    LET mine   == EntriesOf(r)
        others == {u \in Threads \ {t} : Touches(u) \cap mine # {}}
    IN  /\ pc'  = [pc EXCEPT ![t] = l]
        /\ loc' = [u \in Threads |->
                      IF u = t THEN [r EXCEPT !.alone = (others = {}),
                                              !.before = ChildrenMaps,
                                              !.sent = Len(claimLog)]
                      ELSE IF u \in others THEN [loc[u] EXCEPT !.alone = FALSE]
                      ELSE loc[u]]
        /\ created' = [d \in RootDirs |-> [x \in Names |->
                          IF <<d, x>> \in mine THEN 0 ELSE created[d][x]]]
        /\ removed' = [d \in RootDirs |-> [x \in Names |->
                          IF <<d, x>> \in mine THEN FALSE ELSE removed[d][x]]]

(***************************************************************************)
(* mutDir.creat, and its callers Create, Mkdir and Symlink                 *)
(***************************************************************************)
CreateStart(t, D, N) ==
    /\ Running(t, "idle")
    /\ \E n \in D, name \in N :
         BeginChange(t, "creat_pn", [NoLocals EXCEPT !.op = "Create", !.n = n,
                                        !.name = name, !.typ = "fileType"])
    /\ UNCHANGED <<lockVars, popLog, nodes, handles, claimLog, blobs, numPn, now, panicked>>

MkdirStart(t, D, N) ==
    /\ Running(t, "idle")
    /\ \E n \in D, name \in N :
         BeginChange(t, "creat_pn", [NoLocals EXCEPT !.op = "Mkdir", !.n = n,
                                        !.name = name, !.typ = "dirType"])
    /\ UNCHANGED <<lockVars, popLog, nodes, handles, claimLog, blobs, numPn, now, panicked>>

SymlinkStart(t, D, N) ==
    /\ Running(t, "idle")
    /\ \E n \in D, name \in N, target \in Targets :
         BeginChange(t, "creat_pn", [NoLocals EXCEPT !.op = "Symlink", !.n = n,
                                        !.name = name, !.typ = "symlinkType",
                                        !.target = target])
    /\ UNCHANGED <<lockVars, popLog, nodes, handles, claimLog, blobs, numPn, now, panicked>>

\* The child node creat makes for typ.
CreatChild(n, name, typ, pr) ==
    IF typ = "dirType" THEN MutDir(pr, n, name)
    ELSE MutFile(pr, n, name, FALSE, "", NoRef, 0)

\* pr, err := n.fs.client.UploadNewPermanode()
CreatPermanodeOK(t) ==
    /\ Running(t, "creat_pn")
    /\ numPn < MaxPn
    /\ numPn' = numPn + 1
    /\ Goto(t, "creat_claim", [loc[t] EXCEPT !.pr = numPn + 1])
    /\ UNCHANGED <<lockVars, popLog, nodes, handles, claimLog, blobs, now, panicked, created, removed>>

CreatPermanodeError(t) ==
    /\ Running(t, "creat_pn")
    /\ Return(t, "EIO", loc[t])
    /\ UNCHANGED <<lockVars, popLog, nodes, handles, claimLog, blobs, numPn, now, panicked, created, removed>>

\* The store acknowledges claim c.
UploadAndSignBlob(c) ==
    /\ Len(claimLog) < MaxClaims
    /\ claimLog' = Append(claimLog, c)

\* the camliPath:name claim on the directory permanode
CreatClaimOK(t) ==
    /\ Running(t, "creat_claim")
    /\ UploadAndSignBlob(NewSetAttributeClaim(nodes[loc[t].n].permanode, "camliPath",
                                              loc[t].name, loc[t].pr, "", NoRef, NoDate))
    /\ Goto(t, "creat_insert", loc[t])
    /\ UNCHANGED <<lockVars, popLog, nodes, handles, blobs, numPn, now, panicked, created, removed>>

\* A creat that inserts the child although the claim upload failed.
CreatClaimError_Inserts(t) ==
    /\ Running(t, "creat_claim")
    /\ Len(nodes) < MaxNodes
    /\ nodes' = [Append(nodes, CreatChild(loc[t].n, loc[t].name, loc[t].typ, loc[t].pr))
                    EXCEPT ![loc[t].n].hasMap = TRUE,
                           ![loc[t].n].children =
                               MapPut(nodes[loc[t].n].children, loc[t].name, Len(nodes) + 1)]
    /\ Return(t, "EIO", loc[t])
    /\ UNCHANGED <<lockVars, popLog, handles, claimLog, blobs, numPn, now, panicked, created, removed>>

CreatClaimError(t) ==
    /\ Running(t, "creat_claim")
    /\ Return(t, "EIO", loc[t])
    /\ UNCHANGED <<lockVars, popLog, nodes, handles, claimLog, blobs, numPn, now, panicked, created, removed>>

\* A fresh mutFileHandle on file node f whose temp file holds body.  onDisk
\* says the temp file exists.
NewHandle(f, body) == [f |-> f, tmp |-> TRUE, onDisk |-> TRUE, scratch |-> body]

\* n.mu.Lock(); n.children[name] = child; n.mu.Unlock(); return child.
\* Then, by caller: Mkdir returns the child; Create makes the handle
\* (newHandle(nil), which may fail in ioutil.TempFile); Symlink goes on.
CreatInsert(t) ==
    /\ Running(t, "creat_insert")
    /\ LET n     == loc[t].n
           name  == loc[t].name
           child == Len(nodes) + 1
           r     == [loc[t] EXCEPT !.child = child]
       IN
       /\ nodes[n].mu = 0
       /\ child <= MaxNodes
       /\ nodes' = [Append(nodes, CreatChild(n, name, loc[t].typ, loc[t].pr))
                       EXCEPT ![n].hasMap = TRUE,
                              ![n].children = MapPut(nodes[n].children, name, child)]
       /\ CASE loc[t].op = "Mkdir" ->
                 /\ Return(t, "", [r EXCEPT !.node = child])
                 /\ UNCHANGED <<handles, created>>
            [] loc[t].op = "Symlink" ->
                 /\ Goto(t, "symlink_set", r)
                 /\ UNCHANGED <<handles, created>>
            [] loc[t].op = "Create" ->
                 \/ /\ Len(handles) < MaxHandles
                    /\ handles' = Append(handles, NewHandle(child, <<>>))
                    /\ created' = [created EXCEPT ![n][name] =
                                      IF loc[t].alone THEN child ELSE 0]
                    /\ Return(t, "", [r EXCEPT !.node = child,
                                               !.handle = Len(handles) + 1])
                 \/ /\ UNCHANGED <<handles, created>>
                    /\ Return(t, "EIO", r)
    /\ UNCHANGED <<lockVars, popLog, claimLog, blobs, numPn, now, panicked, removed>>

\* mf.symLink = true   (no mutex taken; the node is already in n.children)
SymlinkSet(t) ==
    /\ Running(t, "symlink_set")
    /\ nodes' = [nodes EXCEPT ![loc[t].child].symLink = TRUE]
    /\ Goto(t, "symlink_target", loc[t])
    /\ UNCHANGED <<lockVars, popLog, handles, claimLog, blobs, numPn, now, panicked, created, removed>>

\* mf.target = req.Target   (no mutex taken)
SymlinkTarget(t) ==
    /\ Running(t, "symlink_target")
    /\ nodes' = [nodes EXCEPT ![loc[t].child].target = loc[t].target]
    /\ Goto(t, "symlink_claim", loc[t])
    /\ UNCHANGED <<lockVars, popLog, handles, claimLog, blobs, numPn, now, panicked, created, removed>>

SymlinkClaimOK(t) ==
    /\ Running(t, "symlink_claim")
    /\ UploadAndSignBlob(NewSetAttributeClaim(nodes[loc[t].child].permanode,
                             "camliSymlinkTarget", "", 0, loc[t].target, NoRef, NoDate))
    /\ Return(t, "", [loc[t] EXCEPT !.node = loc[t].child])
    /\ created' = [created EXCEPT ![loc[t].n][loc[t].name] =
                      IF loc[t].alone THEN loc[t].child ELSE 0]
    /\ UNCHANGED <<lockVars, popLog, nodes, handles, blobs, numPn, now, panicked, removed>>

SymlinkClaimError(t) ==
    /\ Running(t, "symlink_claim")
    /\ Return(t, "EIO", loc[t])
    /\ UNCHANGED <<lockVars, popLog, nodes, handles, claimLog, blobs, numPn, now, panicked, created, removed>>

(***************************************************************************)
(* mutDir.Remove                                                           *)
(***************************************************************************)
RemoveStart(t, D, N) ==
    /\ Running(t, "idle")
    /\ \E n \in D, name \in N :
         BeginChange(t, "remove_claim", [NoLocals EXCEPT !.op = "Remove", !.n = n,
                                            !.name = name])
    /\ UNCHANGED <<lockVars, popLog, nodes, handles, claimLog, blobs, numPn, now, panicked>>

\* A Remove that deletes the entry without a del-attribute claim in the log.
RemoveClaimOK_NoClaim(t) ==
    /\ Running(t, "remove_claim")
    /\ Goto(t, "remove_delete", loc[t])
    /\ UNCHANGED <<lockVars, popLog, nodes, handles, claimLog, blobs, numPn, now, panicked, created, removed>>

RemoveClaimOK(t) ==
    /\ Running(t, "remove_claim")
    /\ UploadAndSignBlob(NewDelAttributeClaim(nodes[loc[t].n].permanode, "camliPath",
                                              loc[t].name, NoDate))
    /\ Goto(t, "remove_delete", loc[t])
    /\ UNCHANGED <<lockVars, popLog, nodes, handles, blobs, numPn, now, panicked, created, removed>>

RemoveClaimError(t) ==
    /\ Running(t, "remove_claim")
    /\ Return(t, "EIO", loc[t])
    /\ UNCHANGED <<lockVars, popLog, nodes, handles, claimLog, blobs, numPn, now, panicked, created, removed>>

\* n.mu.Lock(); if n.children != nil { delete(n.children, req.Name) }; n.mu.Unlock()
RemoveDelete(t) ==
    /\ Running(t, "remove_delete")
    /\ LET n == loc[t].n
           name == loc[t].name
       IN  /\ nodes[n].mu = 0
           /\ nodes' = [nodes EXCEPT ![n].children =
                           IF nodes[n].hasMap THEN MapDelete(nodes[n].children, name)
                           ELSE nodes[n].children]
           /\ removed' = [removed EXCEPT ![n][name] = loc[t].alone]
    /\ Return(t, "", loc[t])
    /\ UNCHANGED <<lockVars, popLog, handles, claimLog, blobs, numPn, now, panicked, created>>

(***************************************************************************)
(* mutDir.Rename.  newDir = 0 stands for a fuse.Node that is no *mutDir.   *)
(* Requests rename an entry of D x N to an entry of D2 x N2.               *)
(***************************************************************************)
RenameStart(t, D, N, D2, N2) ==
    /\ Running(t, "idle")
    /\ \E n \in D, oldName \in N, n2 \in D2, newName \in N2 :
         LET r == [NoLocals EXCEPT !.op = "Rename", !.n = n, !.name = oldName,
                                   !.n2 = n2, !.newName = newName,
                                   !.pdir = n, !.cont = "rename_populate2"]
         IN  IF n2 = 0
             THEN BeginChange(t, "idle", [r EXCEPT !.err = "EIO"])
             ELSE BeginChange(t, "populate", r)
    /\ UNCHANGED <<lockVars, popLog, nodes, handles, claimLog, blobs, numPn, now, panicked>>

\* n.populate() returned nil: n2.populate()
RenamePopulate2(t) ==
    /\ Running(t, "rename_populate2")
    /\ Goto(t, "populate", [loc[t] EXCEPT !.pdir = loc[t].n2, !.cont = "rename_find"])
    /\ UNCHANGED <<lockVars, popLog, nodes, handles, claimLog, blobs, numPn, now, panicked, created, removed>>

\* n.mu.Lock(); target, ok := n.children[req.OldName]; n.mu.Unlock();
\* ENOENT when !ok; now := time.Now()
RenameFind(t) ==
    /\ Running(t, "rename_find")
    /\ LET n == loc[t].n IN
       /\ nodes[n].mu = 0
       /\ IF loc[t].name \in DOMAIN nodes[n].children
          THEN Goto(t, "rename_set", [loc[t] EXCEPT !.tnode = nodes[n].children[loc[t].name],
                                                    !.date = now,
                                                    !.found = ChildrenMaps])
          ELSE Return(t, "ENOENT", loc[t])
    /\ UNCHANGED <<lockVars, popLog, nodes, handles, claimLog, blobs, numPn, now, panicked, created, removed>>

\* the camliPath:newName claim on the destination permanode
RenameSetClaimOK(t) ==
    /\ Running(t, "rename_set")
    /\ UploadAndSignBlob(NewSetAttributeClaim(nodes[loc[t].n2].permanode, "camliPath",
                             loc[t].newName, nodes[loc[t].tnode].permanode, "", NoRef,
                             loc[t].date))
    /\ Goto(t, "rename_del", loc[t])
    /\ UNCHANGED <<lockVars, popLog, nodes, handles, blobs, numPn, now, panicked, created, removed>>

RenameSetClaimError(t) ==
    /\ Running(t, "rename_set")
    /\ Return(t, "EIO", loc[t])
    /\ UNCHANGED <<lockVars, popLog, nodes, handles, claimLog, blobs, numPn, now, panicked, created, removed>>

\* the del-attribute camliPath:oldName claim on the source permanode
RenameDelClaimOK(t) ==
    /\ Running(t, "rename_del")
    /\ UploadAndSignBlob(NewDelAttributeClaim(nodes[loc[t].n].permanode, "camliPath",
                                              loc[t].name, loc[t].date))
    /\ Goto(t, "rename_unlink", loc[t])
    /\ UNCHANGED <<lockVars, popLog, nodes, handles, blobs, numPn, now, panicked, created, removed>>

\* A Rename that unlinks the source entry although the del claim failed.
RenameDelClaimError_Unlinks(t) ==
    /\ Running(t, "rename_del")
    /\ nodes' = [nodes EXCEPT ![loc[t].n].children =
                    MapDelete(nodes[loc[t].n].children, loc[t].name)]
    /\ Return(t, "EIO", loc[t])
    /\ UNCHANGED <<lockVars, popLog, handles, claimLog, blobs, numPn, now, panicked, created, removed>>

RenameDelClaimError(t) ==
    /\ Running(t, "rename_del")
    /\ Return(t, "EIO", loc[t])
    /\ UNCHANGED <<lockVars, popLog, nodes, handles, claimLog, blobs, numPn, now, panicked, created, removed>>

\* RenameUnlink as it would be if it kept n.mu until Rename returned
RenameUnlink_KeepsMutex(t) ==
    /\ Running(t, "rename_unlink")
    /\ LET n == loc[t].n
           oldName == loc[t].name
       IN
       /\ nodes[n].mu = 0
       /\ IF oldName \in DOMAIN nodes[n].children
             /\ nodes[n].children[oldName] = loc[t].tnode
          THEN /\ nodes' = [nodes EXCEPT ![n].children = MapDelete(nodes[n].children, oldName),
                                         ![n].mu = t]
               /\ Goto(t, "rename_link", loc[t])
               /\ UNCHANGED panicked
          ELSE /\ panicked' = TRUE
               /\ UNCHANGED <<nodes, pc, loc>>
    /\ UNCHANGED <<lockVars, popLog, handles, claimLog, blobs, numPn, now, created, removed>>

\* n.mu.Lock(); panic("Race.") unless n.children[req.OldName] == target;
\* delete(n.children, req.OldName); n.mu.Unlock()
RenameUnlink(t) ==
    /\ Running(t, "rename_unlink")
    /\ LET n == loc[t].n
           oldName == loc[t].name
       IN
       /\ nodes[n].mu = 0
       /\ IF oldName \in DOMAIN nodes[n].children
             /\ nodes[n].children[oldName] = loc[t].tnode
          THEN /\ nodes' = [nodes EXCEPT ![n].children = MapDelete(nodes[n].children, oldName)]
               /\ Goto(t, "rename_link", loc[t])
               /\ UNCHANGED panicked
          ELSE /\ panicked' = TRUE
               /\ UNCHANGED <<nodes, pc, loc>>
    /\ UNCHANGED <<lockVars, popLog, handles, claimLog, blobs, numPn, now, created, removed>>

\* n2.mu.Lock(); n2.children[req.NewName] = target; n2.mu.Unlock(); return nil.
\* An assignment to an entry of a nil map panics.
RenameLink(t) ==
    /\ Running(t, "rename_link")
    /\ LET n2 == loc[t].n2 IN
       /\ nodes[n2].mu = 0
       /\ IF nodes[n2].hasMap
          THEN /\ nodes' = [nodes EXCEPT ![n2].children =
                               MapPut(nodes[n2].children, loc[t].newName, loc[t].tnode)]
               /\ Return(t, "", loc[t])
               /\ UNCHANGED panicked
          ELSE /\ panicked' = TRUE
               /\ UNCHANGED <<nodes, pc, loc>>
    /\ UNCHANGED <<lockVars, popLog, handles, claimLog, blobs, numPn, now, created, removed>>

(***************************************************************************)
(* mutFile: Open, Setattr, Attr, setContent, setSizeAtLeast                *)
(***************************************************************************)
FileNodes == {i \in NodeIds : nodes[i].kind = "file"}

\* The bytes a schema.FileReader over content yields; none for a file that
\* has no content yet.
FileBytes(content) == IF content = NoRef THEN <<>> ELSE RefBytes(content)

\* History for a request on file node f: the node the last Create or Symlink
\* put under the name that thread t's Lookup has just resolved to f, else 0.
Resolved(t, f) ==
    IF loc[t].op = "Lookup" /\ loc[t].err = "" /\ loc[t].node = f
    THEN loc[t].expect ELSE 0

OpenStart(t) ==
    /\ Running(t, "idle")
    /\ \E f \in FileNodes, flags \in {0, 2} :      \* O_RDONLY, O_RDWR
         Goto(t, "open", [NoLocals EXCEPT !.op = "Open", !.f = f, !.flags = flags])
    /\ UNCHANGED <<lockVars, popLog, nodes, handles, claimLog, blobs, numPn, now, panicked, created, removed>>

\* schema.NewFileReader(n.fs.fetcher, n.content) fails
OpenReaderError(t) ==
    /\ Running(t, "open")
    /\ Return(t, "EIO", loc[t])
    /\ UNCHANGED <<lockVars, popLog, nodes, handles, claimLog, blobs, numPn, now, panicked, created, removed>>

\* req.Flags == 0: a read-only nodeReader over n.content, no mutFileHandle
OpenReadOnly(t) ==
    /\ Running(t, "open")
    /\ loc[t].flags = 0
    /\ Return(t, "", [loc[t] EXCEPT !.br = nodes[loc[t].f].content])
    /\ UNCHANGED <<lockVars, popLog, nodes, handles, claimLog, blobs, numPn, now, panicked, created, removed>>

\* n.newHandle(r): the temp file gets a copy of the content
OpenReadWrite(t) ==
    /\ Running(t, "open")
    /\ loc[t].flags # 0
    /\ Len(handles) < MaxHandles
    /\ handles' = Append(handles, NewHandle(loc[t].f, FileBytes(nodes[loc[t].f].content)))
    /\ Return(t, "", [loc[t] EXCEPT !.handle = Len(handles) + 1])
    /\ UNCHANGED <<lockVars, popLog, nodes, claimLog, blobs, numPn, now, panicked, created, removed>>

\* newHandle fails in ioutil.TempFile or io.Copy: the temp file, if made, is
\* closed and removed, and no handle is returned
OpenNewHandleError(t) ==
    /\ Running(t, "open")
    /\ loc[t].flags # 0
    /\ Return(t, "EIO", loc[t])
    /\ UNCHANGED <<lockVars, popLog, nodes, handles, claimLog, blobs, numPn, now, panicked, created, removed>>

\* Setattr with SetattrSize valid: n.mu.Lock(); n.size = req.Size; n.mu.Unlock()
Setattr(t) ==
    /\ Running(t, "idle")
    /\ \E f \in FileNodes, size \in 0 .. MaxLen :
         /\ nodes[f].mu = 0
         /\ nodes' = [nodes EXCEPT ![f].size = size]
         /\ Goto(t, "setattr_attr", [NoLocals EXCEPT !.op = "Setattr", !.f = f, !.size = size])
    /\ UNCHANGED <<lockVars, popLog, handles, claimLog, blobs, numPn, now, panicked, created, removed>>

\* res.Attr = n.Attr()
SetattrAttr(t) ==
    /\ Running(t, "setattr_attr")
    /\ nodes[loc[t].f].mu = 0
    /\ Return(t, "", [loc[t] EXCEPT !.cnt = nodes[loc[t].f].size])
    /\ UNCHANGED <<lockVars, popLog, nodes, handles, claimLog, blobs, numPn, now, panicked, created, removed>>

\* mutFile.Attr: the Size it reports
Attr(t) ==
    /\ Running(t, "idle")
    /\ \E f \in FileNodes :
         /\ nodes[f].mu = 0
         /\ Return(t, "", [NoLocals EXCEPT !.op = "Attr", !.f = f, !.cnt = nodes[f].size])
    /\ UNCHANGED <<lockVars, popLog, nodes, handles, claimLog, blobs, numPn, now, panicked, created, removed>>

\* Readlink as it would be if it returned the name of the link
Readlink_Name(t) ==
    /\ Running(t, "idle")
    /\ \E f \in FileNodes :
         LET r == [NoLocals EXCEPT !.op = "Readlink", !.f = f,
                                   !.expect = Resolved(t, f)] IN
         /\ nodes[f].mu = 0
         /\ IF ~nodes[f].symLink THEN Return(t, "EIO", r)
            ELSE Return(t, "", [r EXCEPT !.str = nodes[f].name])
    /\ UNCHANGED <<lockVars, popLog, nodes, handles, claimLog, blobs, numPn, now, panicked, created, removed>>

\* n.mu.Lock(); if !n.symLink { return "", EIO }; return n.target, nil
Readlink(t) ==
    /\ Running(t, "idle")
    /\ \E f \in FileNodes :
         LET r == [NoLocals EXCEPT !.op = "Readlink", !.f = f,
                                   !.expect = Resolved(t, f)] IN
         /\ nodes[f].mu = 0
         /\ IF ~nodes[f].symLink THEN Return(t, "EIO", r)
            ELSE Return(t, "", [r EXCEPT !.str = nodes[f].target])
    /\ UNCHANGED <<lockVars, popLog, nodes, handles, claimLog, blobs, numPn, now, panicked, created, removed>>

\* if size > n.size { n.size = size }
setSizeAtLeast(old, size) == IF size > old THEN size ELSE old

(***************************************************************************)
(* mutFileHandle: Read, Write, Truncate, Release.  The temp file is a      *)
(* sequence of bytes; h.tmp == nil is tmp = FALSE.                         *)
(***************************************************************************)
Min(a, b) == IF a < b THEN a ELSE b

\* (*os.File).ReadAt(buf, off) with len(buf) = size: the bytes read
ReadAt(scratch, off, size) == SubSeq(scratch, off + 1, Min(off + size, Len(scratch)))

\* (*os.File).WriteAt(data, off): the file afterwards; a hole reads as zeros
WriteAt(scratch, off, data) ==
    [i \in 1 .. (IF off + Len(data) > Len(scratch) THEN off + Len(data) ELSE Len(scratch)) |->
        IF i > off /\ i <= off + Len(data) THEN data[i - off]
        ELSE IF i <= Len(scratch) THEN scratch[i]
        ELSE 0]

\* (*os.File).Truncate(size): the file afterwards
TruncateTo(scratch, size) ==
    [i \in 1 .. size |-> IF i <= Len(scratch) THEN scratch[i] ELSE 0]

\* byte strings of length lo .. hi
BytesOfLen(lo, hi) == UNION {[1 .. k -> Bytes] : k \in lo .. hi}

\* What a handle request remembers of the file node and the store.
Snapshot(h) == <<nodes[handles[h].f].content, nodes[handles[h].f].size, claimLog, blobs>>

HandleLocals(op, h) ==
    [NoLocals EXCEPT !.op = op, !.h = h, !.f = handles[h].f,
                     !.open = handles[h].tmp, !.snap = Snapshot(h)]

\* The last Write on handle h as thread t's request history tells it.
LastWrite(t, h) ==
    IF loc[t].h # h \/ loc[t].err # "" THEN <<>>
    ELSE IF loc[t].op = "Write" THEN <<loc[t].off, loc[t].data>>
    ELSE IF loc[t].op = "Read" THEN loc[t].wrote
    ELSE <<>>

\* Read as it would be with res.Data = buf in place of buf[:n]
Read_WholeBuffer(t) ==
    /\ Running(t, "idle")
    /\ \E h \in HandleIds, off \in 0 .. MaxLen, size \in 1 .. MaxLen :
         LET r == [HandleLocals("Read", h) EXCEPT !.off = off, !.size = size,
                                                  !.wrote = LastWrite(t, h)]
             got == ReadAt(handles[h].scratch, off, size)
         IN
         IF ~handles[h].tmp THEN Return(t, "EIO", r)
         ELSE \/ Return(t, "", [r EXCEPT !.rdata =
                                   [i \in 1 .. size |-> IF i <= Len(got) THEN got[i] ELSE 0]])
              \/ Return(t, "EIO", [r EXCEPT !.dev = TRUE])
    /\ UNCHANGED <<lockVars, popLog, nodes, handles, claimLog, blobs, numPn, now, panicked, created, removed>>

Read(t) ==
    /\ Running(t, "idle")
    /\ \E h \in HandleIds, off \in 0 .. MaxLen, size \in 1 .. MaxLen :
         LET r == [HandleLocals("Read", h) EXCEPT !.off = off, !.size = size,
                                                  !.wrote = LastWrite(t, h)] IN
         IF ~handles[h].tmp THEN Return(t, "EIO", r)
         ELSE \/ Return(t, "", [r EXCEPT !.rdata = ReadAt(handles[h].scratch, off, size)])
              \/ Return(t, "EIO", [r EXCEPT !.dev = TRUE])   \* an error other than io.EOF
    /\ UNCHANGED <<lockVars, popLog, nodes, handles, claimLog, blobs, numPn, now, panicked, created, removed>>

\* h.tmp.WriteAt(req.Data, req.Offset); a failed write may have stored a
\* prefix of the data
Write(t) ==
    /\ Running(t, "idle")
    /\ \E h \in HandleIds, off \in 0 .. MaxLen, data \in BytesOfLen(1, MaxLen) :
         LET r == [HandleLocals("Write", h) EXCEPT !.off = off, !.data = data] IN
         /\ off + Len(data) <= MaxLen
         /\ IF ~handles[h].tmp
            THEN /\ Return(t, "EIO", r)
                 /\ UNCHANGED handles
            ELSE \/ /\ handles' = [handles EXCEPT ![h].scratch = WriteAt(@, off, data)]
                    /\ Goto(t, "write_size", [r EXCEPT !.cnt = Len(data)])
                 \/ \E k \in 0 .. Len(data) - 1 :
                       /\ handles' = [handles EXCEPT ![h].scratch =
                                         IF k = 0 THEN @ ELSE WriteAt(@, off, SubSeq(data, 1, k))]
                       /\ Return(t, "EIO", [r EXCEPT !.dev = TRUE, !.cnt = k])
    /\ UNCHANGED <<lockVars, popLog, nodes, claimLog, blobs, numPn, now, panicked, created, removed>>

\* h.f.setSizeAtLeast(req.Offset + int64(n)); return nil
WriteSize(t) ==
    /\ Running(t, "write_size")
    /\ LET f == loc[t].f IN
       /\ nodes[f].mu = 0
       /\ nodes' = [nodes EXCEPT ![f].size = setSizeAtLeast(@, loc[t].off + loc[t].cnt)]
    /\ Return(t, "", loc[t])
    /\ UNCHANGED <<lockVars, popLog, handles, claimLog, blobs, numPn, now, panicked, created, removed>>

Truncate(t) ==
    /\ Running(t, "idle")
    /\ \E h \in HandleIds, size \in 0 .. MaxLen :
         LET r == [HandleLocals("Truncate", h) EXCEPT !.size = size] IN
         IF ~handles[h].tmp
         THEN /\ Return(t, "EIO", r)
              /\ UNCHANGED handles
         ELSE \/ /\ handles' = [handles EXCEPT ![h].scratch = TruncateTo(@, size)]
                 /\ Return(t, "", r)
              \/ /\ UNCHANGED handles
                 /\ Return(t, "EIO", [r EXCEPT !.dev = TRUE])
    /\ UNCHANGED <<lockVars, popLog, nodes, claimLog, blobs, numPn, now, panicked, created, removed>>

\* Release as it would be without the h.tmp == nil test
ReleaseStart_NoNilTest(t) ==
    /\ Running(t, "idle")
    /\ \E h \in HandleIds :
         LET r == HandleLocals("Release", h) IN
         \/ Goto(t, "release_upload", r)
         \/ Return(t, "EIO", [r EXCEPT !.dev = TRUE])
    /\ UNCHANGED <<lockVars, popLog, nodes, handles, claimLog, blobs, numPn, now, panicked, created, removed>>

\* if h.tmp == nil { return EIO }; h.tmp.Seek(0, 0)
ReleaseStart(t) ==
    /\ Running(t, "idle")
    /\ \E h \in HandleIds :
         LET r == HandleLocals("Release", h) IN
         IF ~handles[h].tmp THEN Return(t, "EIO", r)
         ELSE \/ Goto(t, "release_upload", r)
              \/ Return(t, "EIO", [r EXCEPT !.dev = TRUE])
    /\ UNCHANGED <<lockVars, popLog, nodes, handles, claimLog, blobs, numPn, now, panicked, created, removed>>

\* br, err := schema.WriteFileFromReader(client, h.f.name, CountingReader{h.tmp, &n})
ReleaseUploadOK(t) ==
    /\ Running(t, "release_upload")
    /\ LET h  == loc[t].h
           br == FileRef(nodes[handles[h].f].name, handles[h].scratch)
       IN  /\ blobs' = blobs \cup {br}
           /\ Goto(t, "release_setcontent",
                   [loc[t] EXCEPT !.br = br, !.cnt = Len(handles[h].scratch)])
    /\ UNCHANGED <<lockVars, popLog, nodes, handles, claimLog, numPn, now, panicked, created, removed>>

ReleaseUploadError(t) ==
    /\ Running(t, "release_upload")
    /\ Return(t, "EIO", loc[t])
    /\ UNCHANGED <<lockVars, popLog, nodes, handles, claimLog, blobs, numPn, now, panicked, created, removed>>

\* setContent as it would be if it raised n.size as setSizeAtLeast does
SetContent_SizeAtLeast(t) ==
    /\ Running(t, "release_setcontent")
    /\ LET f == loc[t].f IN
       /\ nodes[f].mu = 0
       /\ nodes' = [nodes EXCEPT ![f].mu = t, ![f].content = loc[t].br,
                                 ![f].size = setSizeAtLeast(@, loc[t].cnt)]
    /\ Goto(t, "release_claim", loc[t])
    /\ UNCHANGED <<lockVars, popLog, handles, claimLog, blobs, numPn, now, panicked, created, removed>>

\* setContent: n.mu.Lock(); n.content = br; n.size = size; then the
\* camliContent claim is uploaded with the mutex held
SetContent(t) ==
    /\ Running(t, "release_setcontent")
    /\ LET f == loc[t].f IN
       /\ nodes[f].mu = 0
       /\ nodes' = [nodes EXCEPT ![f].mu = t, ![f].content = loc[t].br,
                                 ![f].size = loc[t].cnt]
    /\ Goto(t, "release_claim", loc[t])
    /\ UNCHANGED <<lockVars, popLog, handles, claimLog, blobs, numPn, now, panicked, created, removed>>

\* What Release does once setContent has returned (its error is dropped):
\* h.tmp.Close(); os.Remove(h.tmp.Name()); h.tmp = nil; return nil
ReleaseClose(t, acked) ==
    /\ nodes' = [nodes EXCEPT ![loc[t].f].mu = 0]
    /\ handles' = [handles EXCEPT ![loc[t].h] =
                      [@ EXCEPT !.tmp = FALSE, !.onDisk = FALSE, !.scratch = <<>>]]
    /\ Return(t, "", [loc[t] EXCEPT !.acked = acked,
                                    !.final = handles[loc[t].h].scratch])

\* the camliContent claim is acknowledged; setContent returns nil
SetContentClaimOK(t) ==
    /\ Running(t, "release_claim")
    /\ UploadAndSignBlob(NewSetAttributeClaim(nodes[loc[t].f].permanode, "camliContent",
                                              "", 0, "", loc[t].br, NoDate))
    /\ ReleaseClose(t, TRUE)
    /\ UNCHANGED <<lockVars, popLog, blobs, numPn, now, panicked, created, removed>>

\* the camliContent claim fails; setContent returns the error
SetContentClaimError(t) ==
    /\ Running(t, "release_claim")
    /\ ReleaseClose(t, FALSE)
    /\ UNCHANGED <<lockVars, popLog, claimLog, blobs, numPn, now, panicked, created, removed>>

(***************************************************************************)
(* The directory lock registry of pkg/blobserver/localdisk/dirlock.go.     *)
(* dirLockMu makes getDirLock and unlockDirLock one step each.  A          *)
(* sync.RWMutex is [readers, w, writing]: the count of read locks held,    *)
(* the thread inside Lock or holding the write lock (it keeps new readers  *)
(* out), and whether that thread has the write lock.                       *)
(***************************************************************************)
NewRWMutex == [readers |-> 0, w |-> 0, writing |-> FALSE]

\* getDirLock as it would be if it made a new mutex on every call
getDirLock_AlwaysNew(t, dir, kind, l) ==
    /\ lpc[t] = "idle"
    /\ locksOut' = locksOut + 1
    /\ Len(rwmutex) < MaxMutexes
    /\ rwmutex' = Append(rwmutex, NewRWMutex)
    /\ dirLocks' = MapPut(dirLocks, dir, Len(rwmutex) + 1)
    /\ lloc' = [lloc EXCEPT ![t] = [dir |-> dir, mu |-> Len(rwmutex) + 1, kind |-> kind]]
    /\ lpc' = [lpc EXCEPT ![t] = l]

\* getDirLock(dir): locksOut++; the registry's mutex for dir, made if absent.
\* Thread t goes on to statement l as a kind ("keep" or "delete") locker.
getDirLock(t, dir, kind, l) ==
    /\ lpc[t] = "idle"
    /\ locksOut' = locksOut + 1
    /\ IF dir \in DOMAIN dirLocks
       THEN /\ UNCHANGED <<dirLocks, rwmutex>>
            /\ lloc' = [lloc EXCEPT ![t] = [dir |-> dir, mu |-> dirLocks[dir], kind |-> kind]]
       ELSE /\ Len(rwmutex) < MaxMutexes
            /\ rwmutex' = Append(rwmutex, NewRWMutex)
            /\ dirLocks' = MapPut(dirLocks, dir, Len(rwmutex) + 1)
            /\ lloc' = [lloc EXCEPT ![t] = [dir |-> dir, mu |-> Len(rwmutex) + 1, kind |-> kind]]
    /\ lpc' = [lpc EXCEPT ![t] = l]

\* keepDirectoryLock: mu := getDirLock(dir)
KeepStart(t) ==
    /\ \E dir \in Paths : getDirLock(t, dir, "keep", "rlock")
    /\ UNCHANGED fsVars

\* mu.RLock(); return keepLock{mu}
KeepRLock(t) ==
    /\ lpc[t] = "rlock"
    /\ rwmutex[lloc[t].mu].w = 0
    /\ rwmutex' = [rwmutex EXCEPT ![lloc[t].mu].readers = @ + 1]
    /\ lpc' = [lpc EXCEPT ![t] = "held"]
    /\ UNCHANGED <<fsVars, locksOut, dirLocks, lloc>>

\* keepLock.Unlock: l.mu.RUnlock()
KeepRUnlock(t) ==
    /\ lpc[t] = "held" /\ lloc[t].kind = "keep"
    /\ rwmutex' = [rwmutex EXCEPT ![lloc[t].mu].readers = @ - 1]
    /\ lpc' = [lpc EXCEPT ![t] = "unlock_dir"]
    /\ UNCHANGED <<fsVars, locksOut, dirLocks, lloc>>

\* deleteDirectoryLock: mu := getDirLock(dir)
DeleteStart(t) ==
    /\ \E dir \in Paths : getDirLock(t, dir, "delete", "lock")
    /\ UNCHANGED fsVars

\* mu.Lock(), first half: the writer excludes other writers and new readers
DeleteLockEnter(t) ==
    /\ lpc[t] = "lock"
    /\ rwmutex[lloc[t].mu].w = 0
    /\ rwmutex' = [rwmutex EXCEPT ![lloc[t].mu].w = t]
    /\ lpc' = [lpc EXCEPT ![t] = "lock_wait"]
    /\ UNCHANGED <<fsVars, locksOut, dirLocks, lloc>>

\* mu.Lock(), second half: the readers have left; return deleteLock{mu}
DeleteLock(t) ==
    /\ lpc[t] = "lock_wait"
    /\ rwmutex[lloc[t].mu].readers = 0
    /\ rwmutex' = [rwmutex EXCEPT ![lloc[t].mu].writing = TRUE]
    /\ lpc' = [lpc EXCEPT ![t] = "held"]
    /\ UNCHANGED <<fsVars, locksOut, dirLocks, lloc>>

\* deleteLock.Unlock: l.mu.Unlock()
DeleteUnlock(t) ==
    /\ lpc[t] = "held" /\ lloc[t].kind = "delete"
    /\ rwmutex' = [rwmutex EXCEPT ![lloc[t].mu].w = 0, ![lloc[t].mu].writing = FALSE]
    /\ lpc' = [lpc EXCEPT ![t] = "unlock_dir"]
    /\ UNCHANGED <<fsVars, locksOut, dirLocks, lloc>>

\* unlockDirLock as it would be if it reset the registry on every call
unlockDirLock_AlwaysReset(t) ==
    /\ lpc[t] = "unlock_dir"
    /\ locksOut' = locksOut - 1
    /\ dirLocks' = EmptyMap
    /\ lpc' = [lpc EXCEPT ![t] = "idle"]
    /\ lloc' = [lloc EXCEPT ![t] = NoLock]
    /\ UNCHANGED <<fsVars, rwmutex>>

\* unlockDirLock: locksOut--; if locksOut == 0 { dirLocks = map[...]{} }
unlockDirLock(t) ==
    /\ lpc[t] = "unlock_dir"
    /\ locksOut' = locksOut - 1
    /\ dirLocks' = IF locksOut - 1 = 0 THEN EmptyMap ELSE dirLocks
    /\ lpc' = [lpc EXCEPT ![t] = "idle"]
    /\ lloc' = [lloc EXCEPT ![t] = NoLock]
    /\ UNCHANGED <<fsVars, rwmutex>>

(***************************************************************************)
(* Workloads.  In each, one kernel request runs at a time; a request may   *)
(* stop for good at any statement.                                         *)
(***************************************************************************)

\* Entry "a" of root 1 is created (as a file or a directory) and removed;
\* both names of root 1 are looked up.
DirNext ==
    \/ Tick
    \/ \E t \in {1} :
         \/ PopulateEnter(t) \/ DescribeError(t) \/ DescribeNoDir(t) \/ DescribeOK(t)
         \/ LookupStart(t, {1}, Names) \/ LookupRead(t)
         \/ CreateStart(t, {1}, {"a"}) \/ MkdirStart(t, {1}, {"a"})
         \/ CreatPermanodeOK(t) \/ CreatPermanodeError(t)
         \/ CreatClaimOK(t) \/ CreatClaimError(t) \/ CreatInsert(t)
         \/ RemoveStart(t, {1}, {"a"})
         \/ RemoveClaimOK(t) \/ RemoveClaimError(t) \/ RemoveDelete(t)

SpecDir == Init /\ [][DirNext]_vars

\* Entry "a" of root 1 is created and renamed to either name of either root,
\* or into a node that is no mutDir.
RenameNext ==
    \/ Tick
    \/ \E t \in {1} :
         \/ PopulateEnter(t) \/ DescribeError(t) \/ DescribeNoDir(t) \/ DescribeOK(t)
         \/ CreateStart(t, {1}, {"a"})
         \/ CreatPermanodeOK(t) \/ CreatPermanodeError(t)
         \/ CreatClaimOK(t) \/ CreatClaimError(t) \/ CreatInsert(t)
         \/ RenameStart(t, {1}, {"a"}, RootDirs \cup {0}, Names)
         \/ RenamePopulate2(t) \/ RenameFind(t)
         \/ RenameSetClaimOK(t) \/ RenameSetClaimError(t)
         \/ RenameDelClaimOK(t) \/ RenameDelClaimError(t)
         \/ RenameUnlink(t) \/ RenameLink(t)

SpecRename == Init /\ [][RenameNext]_vars

\* Entry "a" of root 1 is made a symlink or a regular file; both names of
\* root 1 are looked up and the file nodes are asked for their target.
SymlinkNext ==
    \/ Tick
    \/ \E t \in {1} :
         \/ PopulateEnter(t) \/ DescribeError(t) \/ DescribeNoDir(t) \/ DescribeOK(t)
         \/ LookupStart(t, {1}, Names) \/ LookupRead(t)
         \/ SymlinkStart(t, {1}, {"a"}) \/ CreateStart(t, {1}, {"a"})
         \/ CreatPermanodeOK(t) \/ CreatPermanodeError(t)
         \/ CreatClaimOK(t) \/ CreatClaimError(t) \/ CreatInsert(t)
         \/ SymlinkSet(t) \/ SymlinkTarget(t)
         \/ SymlinkClaimOK(t) \/ SymlinkClaimError(t)
         \/ Readlink(t)

SpecSymlink == Init /\ [][SymlinkNext]_vars

\* Every locker takes and gives back keep and delete locks on the paths.
LockNext ==
    \E t \in Lockers :
       \/ KeepStart(t) \/ KeepRLock(t) \/ KeepRUnlock(t)
       \/ DeleteStart(t) \/ DeleteLockEnter(t) \/ DeleteLock(t) \/ DeleteUnlock(t)
       \/ unlockDirLock(t)

SpecLock == Init /\ [][LockNext]_vars

\* Two threads look up and list root 1 while the clock advances in steps
\* shorter than the populate interval.
PopulateNext ==
    \/ TickFine
    \/ \E t \in Threads :
         \/ PopulateEnter(t) \/ DescribeError(t) \/ DescribeNoDir(t) \/ DescribeOK(t)
         \/ LookupStart(t, {1}, Names) \/ LookupRead(t)
         \/ ReadDirStart(t, {1}) \/ ReadDirRead(t)

SpecPopulate == Init /\ [][PopulateNext]_vars

\* File "a" of root 1 is created once, written and released, or "b" is made
\* a symlink; the names of root 1 are looked up.
ClassifyNext ==
    \/ Tick
    \/ \E t \in {1} :
         \/ PopulateEnter(t) \/ DescribeError(t) \/ DescribeNoDir(t) \/ DescribeOK(t)
         \/ LookupStart(t, {1}, Names) \/ LookupRead(t)
         \/ (FileNodes = {} /\ CreateStart(t, {1}, {"a"}))
         \/ (FileNodes = {} /\ SymlinkStart(t, {1}, {"b"}))
         \/ CreatPermanodeOK(t) \/ CreatPermanodeError(t)
         \/ CreatClaimOK(t) \/ CreatClaimError(t) \/ CreatInsert(t)
         \/ SymlinkSet(t) \/ SymlinkTarget(t)
         \/ SymlinkClaimOK(t) \/ SymlinkClaimError(t)
         \/ Write(t) \/ WriteSize(t)
         \/ ReleaseStart(t) \/ ReleaseUploadOK(t) \/ ReleaseUploadError(t)
         \/ SetContent(t) \/ SetContentClaimOK(t) \/ SetContentClaimError(t)

SpecClassify == Init /\ [][ClassifyNext]_vars

\* Thread 1 creates "a" in root 1 and renames it to "b" of either root while
\* thread 2 looks up and lists the roots.
MoveNext ==
    \/ \E t \in {1} :
         \/ (nodes[1].children = EmptyMap /\ CreateStart(t, {1}, {"a"}))
         \/ CreatPermanodeOK(t) \/ CreatPermanodeError(t)
         \/ CreatClaimOK(t) \/ CreatClaimError(t) \/ CreatInsert(t)
         \/ RenameStart(t, {1}, {"a"}, RootDirs, {"b"})
         \/ RenamePopulate2(t) \/ RenameFind(t)
         \/ RenameSetClaimOK(t) \/ RenameSetClaimError(t)
         \/ RenameDelClaimOK(t) \/ RenameDelClaimError(t)
         \/ RenameUnlink(t) \/ RenameLink(t)
    \/ \E t \in {2} :
         \/ LookupStart(t, RootDirs, Names) \/ LookupRead(t)
         \/ ReadDirStart(t, RootDirs) \/ ReadDirRead(t)
    \/ \E t \in Threads :
         \/ PopulateEnter(t) \/ DescribeError(t) \/ DescribeNoDir(t) \/ DescribeOK(t)

SpecMove == Init /\ [][MoveNext]_vars

\* Thread 1 creates file "a" of root 1 and releases its handle, or makes "b"
\* a symlink, while thread 2 opens the file, reads the link, and sets and
\* reads the attributes.
ShareNext ==
    \/ \E t \in {1} :
         \/ (FileNodes = {} /\ CreateStart(t, {1}, {"a"}))
         \/ (FileNodes = {} /\ SymlinkStart(t, {1}, {"b"}))
         \/ CreatPermanodeOK(t) \/ CreatPermanodeError(t)
         \/ CreatClaimOK(t) \/ CreatClaimError(t) \/ CreatInsert(t)
         \/ SymlinkSet(t) \/ SymlinkTarget(t)
         \/ SymlinkClaimOK(t) \/ SymlinkClaimError(t)
         \/ ReleaseStart(t) \/ ReleaseUploadOK(t) \/ ReleaseUploadError(t)
         \/ SetContent(t) \/ SetContentClaimOK(t) \/ SetContentClaimError(t)
    \/ \E t \in {2} :
         \/ OpenStart(t) \/ OpenReaderError(t) \/ OpenReadOnly(t)
         \/ OpenReadWrite(t) \/ OpenNewHandleError(t)
         \/ Readlink(t)
         \/ Setattr(t) \/ SetattrAttr(t) \/ Attr(t)

SpecShare == Init /\ [][ShareNext]_vars

\* Thread 1 creates "a" in root 1 and renames it to "b" of root 1 or of
\* root 2, while thread 2 renames "b" of root 2 back to "a" of root 1.  The
\* claim log has room for one Create and one Rename, so thread 2's claim is
\* refused; every other client call succeeds.
CrossNext ==
    \/ Tick
    \/ \E t \in {1} :
         \/ (nodes[1].children = EmptyMap /\ CreateStart(t, {1}, {"a"}))
         \/ CreatPermanodeOK(t) \/ CreatClaimOK(t) \/ CreatInsert(t)
         \/ RenameStart(t, {1}, {"a"}, RootDirs, {"b"})
         \/ RenameSetClaimOK(t) \/ RenameDelClaimOK(t)
         \/ RenameUnlink(t) \/ RenameLink(t)
    \/ \E t \in {2} :
         \/ RenameStart(t, {2}, {"b"}, {1}, {"a"})
         \/ RenameSetClaimError(t)
    \/ \E t \in Threads :
         \/ PopulateEnter(t) \/ DescribeOK(t)
         \/ RenamePopulate2(t) \/ RenameFind(t)

SpecCross == Init /\ [][CrossNext]_vars

\* File "a" of root 1 is created once, then opened, read, written, truncated
\* and released.
HandleNext ==
    \E t \in {1} :
       \/ (FileNodes = {} /\ CreateStart(t, {1}, {"a"}))
       \/ CreatPermanodeOK(t) \/ CreatPermanodeError(t)
       \/ CreatClaimOK(t) \/ CreatClaimError(t) \/ CreatInsert(t)
       \/ OpenStart(t) \/ OpenReaderError(t) \/ OpenReadOnly(t)
       \/ OpenReadWrite(t) \/ OpenNewHandleError(t)
       \/ Read(t) \/ Write(t) \/ WriteSize(t) \/ Truncate(t)
       \/ ReleaseStart(t) \/ ReleaseUploadOK(t) \/ ReleaseUploadError(t)
       \/ SetContent(t) \/ SetContentClaimOK(t) \/ SetContentClaimError(t)

SpecHandle == Init /\ [][HandleNext]_vars

\* Every request, on every entry, from every thread.
Next ==
    \/ Tick \/ TickFine
    \/ \E t \in Threads :
         \/ PopulateEnter(t) \/ DescribeError(t) \/ DescribeNoDir(t) \/ DescribeOK(t)
         \/ LookupStart(t, RootDirs, Names) \/ LookupRead(t)
         \/ ReadDirStart(t, RootDirs) \/ ReadDirRead(t)
         \/ CreateStart(t, RootDirs, Names) \/ MkdirStart(t, RootDirs, Names)
         \/ SymlinkStart(t, RootDirs, Names)
         \/ CreatPermanodeOK(t) \/ CreatPermanodeError(t)
         \/ CreatClaimOK(t) \/ CreatClaimError(t) \/ CreatInsert(t)
         \/ SymlinkSet(t) \/ SymlinkTarget(t)
         \/ SymlinkClaimOK(t) \/ SymlinkClaimError(t)
         \/ RemoveStart(t, RootDirs, Names)
         \/ RemoveClaimOK(t) \/ RemoveClaimError(t) \/ RemoveDelete(t)
         \/ RenameStart(t, RootDirs, Names, RootDirs \cup {0}, Names)
         \/ RenamePopulate2(t) \/ RenameFind(t)
         \/ RenameSetClaimOK(t) \/ RenameSetClaimError(t)
         \/ RenameDelClaimOK(t) \/ RenameDelClaimError(t)
         \/ RenameUnlink(t) \/ RenameLink(t)
         \/ OpenStart(t) \/ OpenReaderError(t) \/ OpenReadOnly(t)
         \/ OpenReadWrite(t) \/ OpenNewHandleError(t)
         \/ Setattr(t) \/ SetattrAttr(t) \/ Attr(t)
         \/ Read(t) \/ Write(t) \/ WriteSize(t) \/ Truncate(t)
         \/ ReleaseStart(t) \/ ReleaseUploadOK(t) \/ ReleaseUploadError(t)
         \/ SetContent(t) \/ SetContentClaimOK(t) \/ SetContentClaimError(t)
         \/ Readlink(t)
    \/ LockNext

Spec == Init /\ [][Next]_vars

(***************************************************************************)
(* Properties.  Done(t, op) says thread t's last request was op and has    *)
(* returned, so that loc[t] holds its arguments and results.               *)
(***************************************************************************)
Done(t, op) == pc[t] = "idle" /\ loc[t].op = op

\* C1: a Lookup of a name whose entry the last Create put there, with no
\* request changing the name since, succeeds and returns the very node that
\* Create returned, also when the Lookup's populate issued a describe.
C1_LookupReturnsCreated ==
    \A t \in Threads :
       (Done(t, "Lookup") /\ loc[t].expect # 0 /\ loc[t].at = "lookup"
                          /\ ~nodes[loc[t].expect].symLink)
          => (loc[t].err = "" /\ loc[t].node = loc[t].expect)

\* C2: after a successful Release of an open handle, the blob uploaded holds
\* exactly the scratch bytes, the file node's content is that blob, and the
\* size the node reports is the scratch length.
C2_ReleaseCommitsScratch ==
    \A t \in Threads :
       (Done(t, "Release") /\ loc[t].err = "")
          => /\ loc[t].br \in blobs
             /\ RefBytes(loc[t].br) = loc[t].final
             /\ nodes[loc[t].f].content = loc[t].br
             /\ nodes[loc[t].f].size = Len(loc[t].final)

\* C2's case: a Release that succeeded on a scratch shorter than the size the
\* node reported before, and one that uploaded an empty scratch.
C2_Witness ==
    \E t \in Threads :
       /\ Done(t, "Release") /\ loc[t].err = ""
       /\ Len(loc[t].final) > 0
       /\ loc[t].snap[2] > Len(loc[t].final)
       /\ loc[t].snap[1] # NoRef

\* C3: on an open handle, a Read whose device does not fail returns no error
\* and exactly the bytes of scratch from offset up to size bytes or the end of
\* scratch, whichever comes first (so a Read at or past the end is short or
\* empty); and when the last Write on the handle, not followed by another
\* Write or a Truncate, wrote data at the same offset and the Read asks for
\* len(data) bytes, the Read returns data.
C3_WriteThenRead ==
    \A t \in Threads :
       (Done(t, "Read") /\ loc[t].open /\ ~loc[t].dev)
          => LET r == loc[t]
                 s == handles[r.h].scratch
                 avail == IF Len(s) > r.off THEN Len(s) - r.off ELSE 0
             IN  /\ r.err = ""
                 /\ Len(r.rdata) = Min(r.size, avail)
                 /\ \A i \in 1 .. Len(r.rdata) : r.rdata[i] = s[r.off + i]
                 /\ (r.wrote # <<>> /\ r.wrote[1] = r.off /\ Len(r.wrote[2]) = r.size)
                       => r.rdata = r.wrote[2]

\* C3's case: a Read that came right after a Write past the end of scratch,
\* at the Write's offset and for the length of its data.
C3_Witness ==
    \E t \in Threads :
       /\ Done(t, "Read") /\ loc[t].open /\ loc[t].err = ""
       /\ loc[t].wrote # <<>> /\ loc[t].wrote[1] = loc[t].off
       /\ loc[t].off > 0
       /\ Len(loc[t].wrote[2]) = loc[t].size

\* C7: whenever Release has returned on a handle that had its temp file, with
\* or without an error, the temp file is closed and removed and the handle
\* is marked released.
C7_ReleaseAlwaysCleansUp ==
    \A t \in Threads :
       (Done(t, "Release") /\ loc[t].open)
          => (~handles[loc[t].h].tmp /\ ~handles[loc[t].h].onDisk)

\* C8: Release returns success only if the store acknowledged its
\* camliContent claim.
C8_ReleaseSuccessMeansAcked ==
    \A t \in Threads :
       (Done(t, "Release") /\ loc[t].open /\ loc[t].err = "") => loc[t].acked

\* C9: a Read, Write, Truncate or Release on a handle already marked released
\* fails with EIO and leaves the file node's content and size, the claim log
\* and the blob store as they were.
C9_ReleasedHandleRefuses ==
    \A t \in Threads :
       (pc[t] = "idle" /\ loc[t].op \in {"Read", "Write", "Truncate", "Release"}
                       /\ ~loc[t].open)
          => (loc[t].err = "EIO" /\ loc[t].snap = Snapshot(loc[t].h))

\* C9's case: a second Release on a released handle whose file has content.
C9_Witness ==
    \E t \in Threads :
       /\ Done(t, "Release") /\ ~loc[t].open /\ loc[t].err = "EIO"
       /\ nodes[loc[t].f].content # NoRef
       /\ Len(claimLog) > 1

(***************************************************************************)
(* Rename                                                                  *)
(***************************************************************************)
\* The claim log links permanode p from entry name of directory d.
Linked(log, d, name, p) ==
    LET c == LastClaim(log, nodes[d].permanode, "camliPath", name)
    IN  c.type = "set-attribute" /\ c.valPn = p

\* Thread t's Rename has had its set-attribute claim acknowledged.
RenameClaimed(t) ==
    /\ loc[t].op = "Rename"
    /\ \/ pc[t] \in {"rename_del", "rename_unlink", "rename_link"}
       \/ pc[t] = "idle" /\ loc[t].at \in {"rename_del", "rename_link"}

\* Thread t's Rename has had its del-attribute claim acknowledged.
RenameDetached(t) ==
    /\ loc[t].op = "Rename"
    /\ \/ pc[t] \in {"rename_unlink", "rename_link"}
       \/ pc[t] = "idle" /\ loc[t].at = "rename_link"

\* C4: the set-attribute claim of a Rename is in the log before its
\* del-attribute claim, both carry the Rename's one claim date, and from the
\* set claim on the log links the renamed permanode from the source path or
\* from the destination path.
C4_RenameNeverOrphans ==
    \A t \in Threads :
       /\ RenameClaimed(t) =>
             LET c == claimLog[loc[t].sent + 1]
             IN  /\ c.type = "set-attribute" /\ c.date = loc[t].date
                 /\ c.pn = nodes[loc[t].n2].permanode
                 /\ c.name = loc[t].newName
       /\ RenameDetached(t) =>
             LET c == claimLog[loc[t].sent + 2]
             IN  /\ c.type = "del-attribute" /\ c.date = loc[t].date
                 /\ c.pn = nodes[loc[t].n].permanode
                 /\ c.name = loc[t].name
       /\ (RenameClaimed(t) /\ loc[t].alone) =>
             LET p == nodes[loc[t].tnode].permanode
             IN  \/ Linked(claimLog, loc[t].n, loc[t].name, p)
                 \/ Linked(claimLog, loc[t].n2, loc[t].newName, p)

\* C5 as stated: a Rename that fails on either claim returns EIO with the
\* children maps of both directories as they were when Rename was called; a
\* Rename of an absent name returns ENOENT and adds no claim.
C5_RenameFailureLeavesMapsAsCalled ==
    \A t \in Threads :
       (Done(t, "Rename") /\ loc[t].alone) =>
          /\ loc[t].at \in {"rename_set", "rename_del"} =>
                (loc[t].err = "EIO" /\ ChildrenMaps = loc[t].before)
          /\ loc[t].at = "rename_find" =>
                (loc[t].err = "ENOENT" /\ Len(claimLog) = loc[t].sent)

\* C5 amended: a Rename that fails on either claim returns EIO with the
\* children maps of both directories as they were when Rename resolved
\* oldName, that is after its two populate calls; until both claims are
\* acknowledged the maps stay so; a Rename of an absent name returns ENOENT
\* and adds no claim.
C5_RenameFailureLeavesMapsAsResolved ==
    \A t \in Threads :
       (loc[t].op = "Rename" /\ loc[t].alone) =>
          /\ pc[t] \in {"rename_set", "rename_del", "rename_unlink"} =>
                ChildrenMaps = loc[t].found
          /\ (pc[t] = "idle" /\ loc[t].at \in {"rename_set", "rename_del"}) =>
                (loc[t].err = "EIO" /\ ChildrenMaps = loc[t].found)
          /\ (pc[t] = "idle" /\ loc[t].at = "rename_find") =>
                (loc[t].err = "ENOENT" /\ Len(claimLog) = loc[t].sent)

\* C5's case: the del-attribute claim of a Rename into the other directory
\* failed after the set-attribute claim was acknowledged.
C5_Witness ==
    \E t \in Threads :
       /\ Done(t, "Rename") /\ loc[t].at = "rename_del" /\ loc[t].err = "EIO"
       /\ loc[t].n2 # loc[t].n
       /\ Len(claimLog) = loc[t].sent + 1
       /\ loc[t].name \in DOMAIN nodes[loc[t].n].children

(***************************************************************************)
(* Create, Mkdir, Remove and Lookup                                        *)
(***************************************************************************)
\* C6: a Create, Mkdir or Remove whose permanode allocation or camliPath
\* claim fails returns EIO with the children maps as they were when it was
\* called; the map is changed only with the request's claim in the log.
C6_FailedChangeLeavesMap ==
    \A t \in Threads :
       (loc[t].op \in {"Create", "Mkdir", "Remove"} /\ loc[t].alone) =>
          /\ pc[t] \in {"creat_pn", "creat_claim", "remove_claim"} =>
                ChildrenMaps = loc[t].before
          /\ (pc[t] = "idle" /\ loc[t].at \in {"creat_pn", "creat_claim", "remove_claim"}) =>
                (loc[t].err = "EIO" /\ ChildrenMaps = loc[t].before)
          /\ ChildrenMaps # loc[t].before =>
                /\ Len(claimLog) = loc[t].sent + 1
                /\ claimLog[Len(claimLog)].pn = nodes[loc[t].n].permanode
                /\ claimLog[Len(claimLog)].name = loc[t].name
                /\ claimLog[Len(claimLog)].type =
                      (IF loc[t].op = "Remove" THEN "del-attribute" ELSE "set-attribute")

\* C6's case: the camliPath claim of a Create failed in a directory that
\* already has an entry of that name.
C6_Witness ==
    \E t \in Threads :
       /\ Done(t, "Create") /\ loc[t].at = "creat_claim" /\ loc[t].err = "EIO"
       /\ loc[t].name \in DOMAIN nodes[loc[t].n].children
       /\ loc[t].pr # 0

\* C10: a name removed by a successful Remove, with no request changing the
\* name since, is not in the directory's children map, whatever populate
\* did since, and a Lookup of it returns ENOENT.
C10_RemovedStaysAbsent ==
    /\ \A d \in RootDirs, x \in Names :
          removed[d][x] => x \notin DOMAIN nodes[d].children
    /\ \A t \in Threads :
          (Done(t, "Lookup") /\ loc[t].gone /\ loc[t].at = "lookup")
             => loc[t].err = "ENOENT"

\* C10's case: the name was created, then removed, and the Lookup's populate
\* issued a describe that the service answered.
C10_Witness ==
    \E t \in Threads :
       /\ Done(t, "Lookup") /\ loc[t].gone /\ loc[t].at = "lookup"
       /\ loc[t].described = "ok"
       /\ \E i, j \in 1 .. Len(claimLog) :
             /\ i < j
             /\ claimLog[i].type = "set-attribute" /\ claimLog[i].key = "camliPath"
             /\ claimLog[i].name = loc[t].name
             /\ claimLog[i].pn = nodes[loc[t].n].permanode
             /\ claimLog[j].type = "del-attribute" /\ claimLog[j].key = "camliPath"
             /\ claimLog[j].name = loc[t].name
             /\ claimLog[j].pn = nodes[loc[t].n].permanode

Holders(dir, kind) ==
    {t \in Lockers : lpc[t] = "held" /\ lloc[t].dir = dir /\ lloc[t].kind = kind}

\* C12: while a delete lock on a path is held, no keep lock and no other
\* delete lock on that path is held.
C12_DeleteExcludes ==
    \A dir \in Paths :
       Holders(dir, "delete") # {} =>
          /\ Holders(dir, "keep") = {}
          /\ Cardinality(Holders(dir, "delete")) = 1

\* C12's case: after a reset of the registry two keep locks on one path are
\* held at once while a third locker waits in deleteDirectoryLock for it.
C12_Witness ==
    \E dir \in Paths :
       /\ Cardinality(Holders(dir, "keep")) = 2
       /\ \E t \in Lockers : lpc[t] = "lock_wait" /\ lloc[t].dir = dir
       /\ Len(rwmutex) > 1 /\ dirLocks[dir] > 1

(***************************************************************************)
(* Structure of the node tree                                              *)
(***************************************************************************)
\* C13: every node stored in a directory's children map has that directory
\* as its parent and the map key as its name.
C13_ChildrenBackReferences ==
    \A d \in NodeIds : \A x \in DOMAIN nodes[d].children :
       /\ nodes[nodes[d].children[x]].parent = d
       /\ nodes[nodes[d].children[x]].name = x

(***************************************************************************)
(* populate                                                                *)
(***************************************************************************)
\* C14: a populate leaves every name that is in the directory's children
\* map mapped to the same node object; it only adds names.
C14_PopulateKeepsEntries ==
    [][\A t \in Threads :
          (pc[t] = "describe" /\ pc'[t] # "describe") =>
             \A x \in DOMAIN nodes[loc[t].pdir].children :
                /\ x \in DOMAIN nodes'[loc[t].pdir].children
                /\ nodes'[loc[t].pdir].children[x] = nodes[loc[t].pdir].children[x]]_vars

(***************************************************************************)
(* Failed claims of Symlink and setContent                                 *)
(***************************************************************************)
\* C15: after a Symlink whose camliSymlinkTarget claim failed, the directory's
\* children map holds no node that the call added under the name; after a
\* Release whose setContent had its camliContent claim fail, the file node's
\* content and size are what they were before the call.
C15_FailedClaimLeavesState ==
    \A t \in Threads :
       /\ (Done(t, "Symlink") /\ loc[t].at = "symlink_claim" /\ loc[t].err = "EIO"
                              /\ loc[t].alone) =>
             ~ /\ loc[t].name \in DOMAIN nodes[loc[t].n].children
                /\ nodes[loc[t].n].children[loc[t].name] = loc[t].child
       /\ (Done(t, "Release") /\ loc[t].at = "release_claim" /\ ~loc[t].acked) =>
             /\ nodes[loc[t].f].content = loc[t].snap[1]
             /\ nodes[loc[t].f].size = loc[t].snap[2]

(***************************************************************************)
(* Timing of populate                                                      *)
(***************************************************************************)
\* C16 as stated: a populate that reads the clock less than a populate
\* interval after the directory's previous populate did calls no Describe,
\* and no two Describes of a directory are less than an interval apart.
C16_SecondPopulateNoDescribe ==
    \A t \in Threads :
       pc[t] = "describe" =>
          /\ loc[t].sinceCall = NoTime \/ loc[t].sinceCall >= populateInterval
          /\ loc[t].sinceDesc = NoTime \/ loc[t].sinceDesc >= populateInterval

\* C16 amended: a populate that reads the clock less than a populate
\* interval after the directory's last populate that called Describe calls
\* no Describe and returns success; no two Describes of a directory are
\* less than an interval apart.
C16_DescribeRateLimited ==
    \A t \in Threads :
       /\ pc[t] = "describe" =>
             (loc[t].sinceDesc = NoTime \/ loc[t].sinceDesc >= populateInterval)
       /\ (loc[t].op \in {"Lookup", "ReadDir"} /\ loc[t].sinceDesc # NoTime
              /\ loc[t].sinceDesc < populateInterval) =>
             /\ loc[t].described = "fresh"
             /\ pc[t] = "idle" => (loc[t].at # "describe" /\ loc[t].err # "EIO")

\* C16's case: a populate found the directory fresh some time after the
\* Describe of another thread's populate, which it had to wait for.
C16_Witness ==
    \E t \in Threads :
       /\ loc[t].described = "fresh"
       /\ loc[t].sinceDesc > 0 /\ loc[t].sinceDesc < populateInterval
       /\ loc[t].sinceCall = loc[t].sinceDesc
       /\ \E u \in Threads \ {t} : loc[u].described \in {"ok", "error"} /\ loc[u].sinceDesc = NoTime

\* C17: when the Describe of a populate fails, populate returns success to
\* its caller, the children map is as it was, and the directory's lastPop is
\* the value it had when populate was called.
C17_FailedDescribeKeepsLastPop ==
    [][\A t \in Threads :
          (pc[t] = "describe" /\ pc'[t] # "describe" /\ loc'[t].described = "error") =>
             /\ pc'[t] = loc[t].cont
             /\ nodes'[loc[t].pdir].children = nodes[loc[t].pdir].children
             /\ nodes'[loc[t].pdir].lastPop = loc[t].prevPop]_vars

(***************************************************************************)
(* Classification of described children                                    *)
(***************************************************************************)
\* C18: after a populate whose Describe succeeded, every camliPath child the
\* response describes is stored as a symlink node if it has a non-empty
\* camliSymlinkTarget, else as a regular file node with that content and its
\* size if it has a camliContent described as a file, else as a directory
\* node; only a child that the response does not describe is skipped, its
\* entry left as it was.
C18_PopulateClassifies ==
    [][\A t \in Threads :
          (pc[t] = "describe" /\ pc'[t] # "describe" /\ loc'[t].described = "ok") =>
             \A x \in Names :
                LET d    == loc[t].pdir
                    as   == loc'[t].resp[x]
                    had  == x \in DOMAIN nodes[d].children
                    has  == x \in DOMAIN nodes'[d].children
                    c    == nodes'[nodes'[d].children[x]]
                    ref  == ChildContent(claimLog, d, x)
                IN  CASE as \in {"none", "undescribed"} ->
                            /\ has = had
                            /\ has => nodes'[d].children[x] = nodes[d].children[x]
                      [] as = "symlink" ->
                            /\ has /\ c.kind = "file" /\ c.symLink
                            /\ c.target = ChildTarget(claimLog, d, x)
                      [] as = "file" ->
                            /\ has /\ c.kind = "file" /\ ~c.symLink
                            /\ c.content = ref /\ c.size = Len(RefBytes(ref))
                      [] OTHER ->
                            has /\ c.kind = "dir"]_vars

(***************************************************************************)
(* Mutexes and client calls                                                *)
(***************************************************************************)
\* The statements at which a request waits for UploadNewPermanode,
\* UploadAndSignBlob or WriteFileFromReader to return.
ClientCalls ==
    {"creat_pn", "creat_claim", "symlink_claim", "remove_claim",
     "rename_set", "rename_del", "release_upload", "release_claim"}

\* C19: a request that waits for a claim client or blob client call to
\* return holds no node's mutex.
C19_NoMutexAcrossClientCall ==
    \A t \in Threads :
       pc[t] \in ClientCalls => \A d \in NodeIds : nodes[d].mu # t


\* C20: no Lookup or ReadDir on the source or destination directory of a
\* Rename that succeeds reads the directory's map while the renamed node is
\* in neither the source map under oldName nor the destination map under
\* newName.
C20_RenameMoveAtomic ==
    \A t \in Threads :
       (pc[t] = "idle" /\ loc[t].op \in {"Lookup", "ReadDir"}) => ~loc[t].torn


\* The accesses to mutable fields of file nodes that the next step of
\* thread t's request makes: the node, the field, whether it is a write, and
\* whether the step holds the node's mutex while it makes it.
Access(t) ==
    CASE pc[t] = "symlink_set" ->
           {[node |-> loc[t].child, field |-> "symLink", write |-> TRUE, held |-> FALSE]}
      [] pc[t] = "symlink_target" ->
           {[node |-> loc[t].child, field |-> "target", write |-> TRUE, held |-> FALSE]}
      [] pc[t] = "open" ->
           {[node |-> loc[t].f, field |-> "content", write |-> FALSE, held |-> FALSE]}
      [] pc[t] = "release_setcontent" ->
           {[node |-> loc[t].f, field |-> fld, write |-> TRUE, held |-> TRUE] :
               fld \in {"content", "size"}}
      [] pc[t] = "setattr_attr" ->
           {[node |-> loc[t].f, field |-> "size", write |-> FALSE, held |-> TRUE]}
      [] OTHER -> {}

\* C21: no two requests are about to access the same field of the same node,
\* one of them writing, unless both hold the node's mutex for the access;
\* and a Readlink that succeeds returns a target a Symlink stored.
C21_FieldsUnderMutex ==
    /\ \A t, u \in Threads :
          t # u =>
             \A a \in Access(t), b \in Access(u) :
                (a.node = b.node /\ a.field = b.field /\ (a.write \/ b.write))
                   => (a.held /\ b.held)
    /\ \A t \in Threads :
          (Done(t, "Readlink") /\ loc[t].err = "") => loc[t].str \in Targets


(***************************************************************************)
(* The registry's reference count                                          *)
(***************************************************************************)
\* The lockers between their call of getDirLock and the end of their Unlock.
Outstanding == {t \in Lockers : lpc[t] # "idle"}

\* C22: locksOut is the number of acquisitions outstanding and is never
\* negative; the registry is empty when none is outstanding; and while an
\* acquisition is outstanding the registry still maps its path to the lock
\* object it was given, so that overlapping acquisitions of one path share
\* their lock object.
C22_RegistryRefcount ==
    /\ locksOut = Cardinality(Outstanding)
    /\ locksOut >= 0
    /\ (locksOut = 0 => dirLocks = EmptyMap)
    /\ \A t \in Outstanding :
          /\ lloc[t].dir \in DOMAIN dirLocks
          /\ dirLocks[lloc[t].dir] = lloc[t].mu
    /\ \A t, u \in Outstanding :
          lloc[t].dir = lloc[u].dir => lloc[t].mu = lloc[u].mu

\* C22's case: after the registry has been reset and refilled, all three
\* lockers have acquisitions outstanding, two of them on the same path, one
\* of these past its RUnlock or Unlock and about to give its count back.
C22_Witness ==
    /\ Outstanding = Lockers
    /\ Len(rwmutex) > Cardinality(Paths)
    /\ \E t, u \in Lockers :
          /\ t # u /\ lloc[t].dir = lloc[u].dir
          /\ lpc[t] = "unlock_dir" /\ lpc[u] = "held"


(***************************************************************************)
(* Node mutexes                                                            *)
(***************************************************************************)
\* The nodes whose mutex thread t holds.
HeldBy(t) == {d \in NodeIds : nodes[d].mu = t}

\* The node whose mutex the next statement of thread t's request locks, 0
\* when that statement locks none.
Wants(t) ==
    CASE pc[t] = "populate" -> loc[t].pdir
      [] pc[t] \in {"lookup", "readdir", "creat_insert", "remove_delete",
                    "rename_find", "rename_unlink"} -> loc[t].n
      [] pc[t] = "rename_link" -> loc[t].n2
      [] pc[t] \in {"setattr_attr", "write_size", "release_setcontent"} -> loc[t].f
      [] OTHER -> 0

====
